---- MODULE Spec2Model ----
(***************************************************************************)
(* The TrustMetrics component in its two revisions:                        *)
(*   rev = 1  frontend/src/components/TrustMetrics.jsx (viewport reveal,   *)
(*            CSS transitions)                                             *)
(*   rev = 2  unnamed/part_000 (animation-library timeline, tick sound)    *)
(* Strings are sequences of one-character strings, so that trimming,       *)
(* matching, parsing and formatting are computed character by character.   *)
(* Times are milliseconds.  The component stays mounted.                   *)
(***************************************************************************)
EXTENDS Integers, Sequences, FiniteSets, TLC

\* ---------------------------------------------------------------- bounds
\* Interval between two delivered animation frames (a slow frame is twice it).
FrameMs == 500
\* Longest items array a server payload carries.
MaxItems == 5
\* Longest target string handed to the count-up hook on its own.
MaxLen == 4

\* ------------------------------------------------------ program constants
DurationMs == 2000
DelayStepMs == 200
SliceLen == 4
EntranceMs == 500
EntranceDelayMs == 200
IconMs == 400
GlowMs == 900

\* ---------------------------------------------------------------- strings
Digits == <<"0", "1", "2", "3", "4", "5", "6", "7", "8", "9">>

IsDigit(c) == \E d \in 1..10 : Digits[d] = c

DigitVal(c) == (CHOOSE d \in 1..10 : Digits[d] = c) - 1

\* White space String.prototype.trim removes; "\n" is also a line terminator,
\* which the regular expression's "." does not match.
IsSpace(c) == c \in {" ", "\n"}

IsLineTerminator(c) == c = "\n"

\* The helpers below recurse on the value of their argument: they are
\* functions, on strings (Str) or on naturals.
Str == Seq(STRING)

TrimLeft[s \in Str] ==
  IF s # <<>> /\ IsSpace(Head(s)) THEN TrimLeft[Tail(s)] ELSE s

TrimRight[s \in Str] ==
  IF s # <<>> /\ IsSpace(s[Len(s)]) THEN TrimRight[SubSeq(s, 1, Len(s) - 1)] ELSE s

\* String.prototype.trim
Trim(s) == TrimRight[TrimLeft[s]]

\* Length of the longest prefix of s made of digits.
DigitRun[s \in Str] ==
  IF s # <<>> /\ IsDigit(Head(s)) THEN 1 + DigitRun[Tail(s)] ELSE 0

\* parseFloat of a string of digits.
DigitsToNat[s \in Str] ==
  IF s = <<>> THEN 0 ELSE 10 * DigitsToNat[SubSeq(s, 1, Len(s) - 1)] + DigitVal(s[Len(s)])

Pow10[k \in Nat] == IF k = 0 THEN 1 ELSE 10 * Pow10[k - 1]

\* Number.prototype.toString of a non-negative integer.
NatToString[n \in Nat] ==
  IF n < 10 THEN <<Digits[n + 1]>> ELSE NatToString[n \div 10] \o <<Digits[(n % 10) + 1]>>

\* The k low decimal digits of n, zero padded.
PadDigits[n \in Nat, k \in Nat] ==
  IF k = 0 THEN <<>> ELSE PadDigits[n \div 10, k - 1] \o <<Digits[(n % 10) + 1]>>

\* Euclid's algorithm.
Gcd[a \in Nat, b \in Nat] == IF b = 0 THEN a ELSE Gcd[b, a % b]

\* ------------------------------------------------------------ parseNumeric
\* The match of /^([0-9]+(?:\.[0-9]+)?)(.*)$/ on the trimmed string: the number
\* group is the leading digit run, followed by "." and a digit run when at least
\* one digit follows the dot; the rest is the suffix, which holds no line
\* terminator.  intLen = 0 stands for "no match".
NumberMatch(t) ==
  LET il == DigitRun[t]
      afterDot == IF il + 1 <= Len(t) /\ t[il + 1] = "."
                    THEN DigitRun[SubSeq(t, il + 2, Len(t))] ELSE 0
      glen == IF afterDot > 0 THEN il + 1 + afterDot ELSE il
      rest == SubSeq(t, glen + 1, Len(t))
      ok == il > 0 /\ \A i \in 1..Len(rest) : ~IsLineTerminator(rest[i])
  IN [matched |-> ok, intLen |-> il, fracLen |-> afterDot, suffix |-> rest]

\* { n, decimals, suffix }: n is kept as the integer scaled = n * 10^decimals.
parseNumeric(targetStr) ==
  IF targetStr = <<>> THEN [scaled |-> 0, decimals |-> 0, suffix |-> <<>>]
  ELSE LET t == Trim(targetStr)
           m == NumberMatch(t)
       IN IF ~m.matched THEN [scaled |-> 0, decimals |-> 0, suffix |-> targetStr]
          ELSE [scaled |-> DigitsToNat[SubSeq(t, 1, m.intLen)
                             \o SubSeq(t, m.intLen + 2, m.intLen + 1 + m.fracLen)],
                decimals |-> m.fracLen,
                suffix |-> m.suffix]

\* easeOutQuad(t) for t = e / DurationMs, as a reduced fraction <<num, den>>.
easeOutQuad(e) ==
  LET num == DurationMs * DurationMs - (DurationMs - e) * (DurationMs - e)
      den == DurationMs * DurationMs
      g == Gcd[num, den]
  IN <<num \div g, den \div g>>

\* Math.round and toFixed on a non-negative a / b: nearest integer, ties up.
RoundDiv(a, b) == (2 * a + b) \div (2 * b)

\* current = n * eased; decimals > 0 ? current.toFixed(decimals)
\*                                    : Math.round(current).toString()
Formatted(p, e) ==
  LET q == easeOutQuad(e)
      cur == RoundDiv(p.scaled * q[1], q[2])
  IN IF p.decimals > 0
       THEN NatToString[cur \div Pow10[p.decimals]] \o <<".">>
              \o PadDigits[cur % Pow10[p.decimals], p.decimals]
       ELSE NatToString[cur]

\* The text a step sets at elapsed time e (0 <= e <= DurationMs), for the
\* { n, decimals, suffix } its effect parsed: `${formatted}${suffix}`.
StepText(p, e) == Formatted(p, e) \o p.suffix

\* Math.round(current) of a step, compared with lastIntRef.
StepInt(p, e) ==
  LET q == easeOutQuad(e) IN RoundDiv(p.scaled * q[1], q[2])

\* ------------------------------------------------------------------ data
\* An item is a record of its key and its value string; label and icon are
\* rendered as they are and never read by the logic.
DefaultItems ==
  << [key |-> "rating",    value |-> <<"4", ".", "9", "/", "5">>],
     [key |-> "shipments", value |-> <<"1", "2", "0", "K", "+">>],
     [key |-> "downloads", value |-> <<"8", "5", "K", "+">>],
     [key |-> "uptime",    value |-> <<"1", ".", "2", "s">>] >>

\* A JSON value as the component reads it: null or an object, whose items field
\* is absent, falsy, a truthy non-array, or an array of items.
Json(kind, id, itemsKind, items) ==
  [kind |-> kind, id |-> id, itemsKind |-> itemsKind, items |-> items]

JsonNull == Json("null", "", "absent", <<>>)

defaultMetrics == Json("object", "fallback", "array", DefaultItems)

ServerKeys == <<"a", "b", "c", "d", "e", "f", "g">>

ServerValues ==
  << <<"9", ".", "5", "%">>, <<"N", "/", "A">>, <<"0", "0", "7">>,
     <<"3">>, <<" ", "1", "2", "K">>, <<"4", "0">> >>

ServerItem(k) ==
  [key |-> ServerKeys[((k - 1) % Len(ServerKeys)) + 1],
   value |-> ServerValues[((k - 1) % Len(ServerValues)) + 1]]

ServerArray(n) == [k \in 1..n |-> ServerItem(k)]

\* What res.json() can resolve to.
Payloads ==
  { JsonNull,
    Json("object", "srv", "absent", <<>>),
    Json("object", "srv", "falsy", <<>>),
    Json("object", "srv", "other", <<>>) }
  \cup { Json("object", "srv", "array", ServerArray(n)) : n \in 0..MaxItems }

\* !json || !json.items
InvalidPayload(json) == json.kind = "null" \/ json.itemsKind \in {"absent", "falsy"}

\* (data && Array.isArray(data.items) ? data.items : defaultMetrics.items)
RenderSource(d) ==
  IF d.kind # "null" /\ d.itemsKind = "array" THEN d.items ELSE defaultMetrics.items

\* RenderItems without its slice.
RenderItemsNoSlice(d) == RenderSource(d)

\* ....slice(0, 4)
RenderItems(d) ==
  LET src == RenderSource(d)
  IN SubSeq(src, 1, IF Len(src) < SliceLen THEN Len(src) ELSE SliceLen)

\* ----------------------------------------------------------------- state
VARIABLES
  rev,            \* which revision is built: 1 or 2
  prefersReduced, \* matchMedia('(prefers-reduced-motion: reduce)').matches
  mounted,        \* the component's effects have run
  data,           \* useState(null)
  loading,        \* useState(true)
  visible,        \* useState(false)
  rootDirty,      \* a state update of TrustMetrics awaits its render
  rendered,       \* what the last render returned: "skeleton" or "cards"
  cards,          \* the mounted MetricCards, in render order
  req,            \* fetchMetrics: "none", "pending" (await fetch),
                  \* "body" (await res.json()), "done"
  timer,          \* the abort timer: "none", "set", "fired", "cleared"
  aborted,        \* controller.signal.aborted
  io,             \* the IntersectionObserver: "none", "observing", "disconnected"
  requests,       \* number of fetch calls issued
  setDataCalls,   \* number of setData calls made
  failure,        \* the way the request failed, "none" when it has not
  pv,             \* count-up hook on its own: the target string
  ptext,          \*   its text state
  pe              \*   now - startTime of its running count, capped at the duration

rootVars == <<mounted, data, loading, visible, rootDirty, rendered>>
fetchVars == <<req, timer, aborted, requests, setDataCalls, failure>>
hookVars == <<pv, ptext, pe>>
vars == <<rev, prefersReduced, rootVars, cards, fetchVars, io, hookVars>>

Failures == {"reject", "http", "badjson", "invalid", "abort"}

\* TrustMetrics after its first render, before its effects have run.
InitComponent ==
  /\ rev \in {1, 2}
  /\ prefersReduced \in BOOLEAN
  /\ mounted = FALSE
  /\ data = JsonNull
  /\ loading = TRUE
  /\ visible = FALSE
  /\ rootDirty = FALSE
  /\ rendered = "skeleton"
  /\ cards = <<>>
  /\ req = "none"
  /\ timer = "none"
  /\ aborted = FALSE
  /\ io = "none"
  /\ requests = 0
  /\ setDataCalls = 0
  /\ failure = "none"

Init ==
  /\ InitComponent
  /\ pv = <<>>
  /\ ptext = <<>>
  /\ pe = 0

\* ------------------------------------------------------------ fetchMetrics
\* The two effects of TrustMetrics, run once after the first render: the call
\* of fetchMetrics up to its first await, and the reveal effect.
Mount ==
  /\ ~mounted
  /\ mounted' = TRUE
  /\ requests' = requests + 1
  /\ req' = "pending"
  /\ timer' = "set"
  /\ IF prefersReduced
       THEN visible' = TRUE /\ rootDirty' = TRUE /\ io' = io
       ELSE visible' = visible /\ rootDirty' = rootDirty /\ io' = "observing"
  /\ UNCHANGED <<rev, prefersReduced, data, loading, rendered, cards, aborted,
                 setDataCalls, failure, hookVars>>

\* finally { clearTimeout(timer); setLoading(false); }
Finally ==
  /\ timer' = IF timer = "set" THEN "cleared" ELSE timer
  /\ loading' = FALSE
  /\ rootDirty' = TRUE
  /\ req' = "done"

\* Fallback with a catch block that issues the request once more.
FallbackRetry ==
  /\ data' = defaultMetrics
  /\ setDataCalls' = setDataCalls + 1
  /\ timer' = IF timer = "set" THEN "cleared" ELSE timer
  /\ loading' = FALSE
  /\ rootDirty' = TRUE
  /\ req' = IF requests < 2 THEN "pending" ELSE "done"
  /\ requests' = IF requests < 2 THEN requests + 1 ELSE requests

\* catch (e) { setData(defaultMetrics); } finally { ... }; the action that
\* throws records in failure what went wrong.
Fallback ==
  /\ data' = defaultMetrics
  /\ setDataCalls' = setDataCalls + 1
  /\ requests' = requests
  /\ Finally

\* fetch rejects: the network failed.
FetchRejects ==
  /\ req = "pending"
  /\ ~aborted
  /\ failure' = "reject"
  /\ Fallback
  /\ UNCHANGED <<rev, prefersReduced, mounted, visible, rendered, cards, aborted,
                 io, hookVars>>

\* ResponseArrives without the res.ok check.
ResponseArrivesUnchecked(ok) ==
  /\ req = "pending"
  /\ ~aborted
  /\ req' = "body"
  /\ failure' = IF ok THEN failure ELSE "http"
  /\ UNCHANGED <<rev, prefersReduced, rootVars, cards, timer, aborted, requests,
                 setDataCalls, io, hookVars>>

\* fetch resolves with a response; if (!res.ok) throw.
ResponseArrives(ok) ==
  /\ req = "pending"
  /\ ~aborted
  /\ failure' = IF ok THEN failure ELSE "http"
  /\ IF ok
       THEN /\ req' = "body"
            /\ UNCHANGED <<data, loading, rootDirty, timer, requests, setDataCalls>>
       ELSE Fallback
  /\ UNCHANGED <<rev, prefersReduced, mounted, visible, rendered, cards, aborted,
                 io, hookVars>>

\* res.json() rejects: the body is not JSON.
BodyInvalid ==
  /\ req = "body"
  /\ ~aborted
  /\ failure' = "badjson"
  /\ Fallback
  /\ UNCHANGED <<rev, prefersReduced, mounted, visible, rendered, cards, aborted,
                 io, hookVars>>

\* BodyParsed with setData(json) placed before the payload check.
BodyParsedSetFirst(json) ==
  /\ req = "body"
  /\ ~aborted
  /\ data' = IF InvalidPayload(json) THEN defaultMetrics ELSE json
  /\ setDataCalls' = setDataCalls + (IF InvalidPayload(json) THEN 2 ELSE 1)
  /\ failure' = IF InvalidPayload(json) THEN "invalid" ELSE failure
  /\ requests' = requests
  /\ Finally
  /\ UNCHANGED <<rev, prefersReduced, mounted, visible, rendered, cards, aborted,
                 io, hookVars>>

\* res.json() resolves; if (!json || !json.items) throw; setData(json).
BodyParsed(json) ==
  /\ req = "body"
  /\ ~aborted
  /\ failure' = IF InvalidPayload(json) THEN "invalid" ELSE failure
  /\ IF InvalidPayload(json)
       THEN Fallback
       ELSE /\ data' = json
            /\ setDataCalls' = setDataCalls + 1
            /\ requests' = requests
            /\ Finally
  /\ UNCHANGED <<rev, prefersReduced, mounted, visible, rendered, cards, aborted,
                 io, hookVars>>

\* TimerFires with a controller whose signal was not handed to fetch.
TimerFiresUnwired ==
  /\ timer = "set"
  /\ timer' = "fired"
  /\ UNCHANGED <<rev, prefersReduced, rootVars, cards, req, aborted, requests,
                 setDataCalls, failure, io, hookVars>>

\* setTimeout(() => controller.abort(), 3000) fires.
TimerFires ==
  /\ timer = "set"
  /\ timer' = "fired"
  /\ aborted' = TRUE
  /\ UNCHANGED <<rev, prefersReduced, rootVars, cards, req, requests,
                 setDataCalls, failure, io, hookVars>>

\* The aborted fetch, or the aborted body read, rejects with an AbortError.
AbortRejects ==
  /\ aborted
  /\ req \in {"pending", "body"}
  /\ failure' = "abort"
  /\ Fallback
  /\ UNCHANGED <<rev, prefersReduced, mounted, visible, rendered, cards, aborted,
                 io, hookVars>>

\* The observer reports an intersecting entry: setVisible(true); io.disconnect().
Intersect ==
  /\ io = "observing"
  /\ visible' = TRUE
  /\ rootDirty' = TRUE
  /\ io' = "disconnected"
  /\ UNCHANGED <<rev, prefersReduced, mounted, data, loading, rendered, cards,
                 fetchVars, hookVars>>

\* ------------------------------------------------------------- MetricCard
Min(a, b) == IF a < b THEN a ELSE b

\* CountStart without the reduced-motion preference.
CountStartAlways(vis, ready) == IF rev = 1 THEN vis ELSE ready

\* The start option MetricCard hands to useCountUp.
CountStart(vis, ready) ==
  IF rev = 1 THEN vis /\ ~prefersReduced ELSE ready /\ ~prefersReduced

\* The delay option: idx * 200 in revision 1, 0 in revision 2.
CountDelay(idx) == IF rev = 1 THEN idx * DelayStepMs ELSE 0

\* What the card's number element shows for the state of one render.
Shown(c) ==
  IF rev = 1 THEN c.text ELSE IF c.readyToCount THEN c.text ELSE c.item.value

\* The body of useCountUp's effect, for the start of the render just made; num
\* is the { n, decimals, suffix } its step closes over.  lastInt is revision
\* 2's lastIntRef, which revision 1 never moves from -1.
CountEffect(c) ==
  IF ~c.start
    THEN [c EXCEPT !.text = c.item.value, !.dirty = TRUE, !.lastInt = -1]
    ELSE [c EXCEPT !.num = parseNumeric(c.item.value),
                   !.elapsed = -CountDelay(c.idx), !.raf = TRUE]

\* The cleanup of useCountUp's effect: cancelAnimationFrame(rafRef.current),
\* returned only by a run that had start = true.
CountCleanup(c, hadStart) == IF hadStart THEN [c EXCEPT !.raf = FALSE] ELSE c

\* Whether a re-render finds useCountUp's dependencies changed: start in
\* revision 1; in revision 2 onTick too, a new function on every render.
CountDepsChanged(oldStart, newStart) ==
  IF rev = 1 THEN oldStart # newStart ELSE TRUE

\* The body of revision 2's run effect, for the visible of the render just made.
RunEffect(c) ==
  IF ~c.visible \/ prefersReduced
    THEN [c EXCEPT !.readyToCount = TRUE, !.dirty = @ \/ ~c.readyToCount]
    ELSE [c EXCEPT !.anim = "entrance", !.animT = -(c.idx * EntranceDelayMs)]

\* The first render of a card and its effects, in the order of the hooks.
MountCard(item, idx, vis) ==
  LET c0 == [item |-> item, idx |-> idx, visible |-> vis,
             readyToCount |-> FALSE, start |-> CountStart(vis, FALSE),
             text |-> item.value, shown |-> item.value,
             num |-> parseNumeric(<<>>),
             raf |-> FALSE, elapsed |-> 0, dirty |-> FALSE, lastInt |-> -1,
             anim |-> "idle", animT |-> 0, ticked |-> FALSE]
  IN IF rev = 1 THEN CountEffect(c0) ELSE CountEffect(RunEffect(c0))

\* A later render of a card with the visible prop vis, and the effects whose
\* dependencies changed.
RenderCard(c, vis) ==
  LET r0 == [c EXCEPT !.visible = vis, !.start = CountStart(vis, c.readyToCount),
                      !.shown = Shown(c), !.dirty = FALSE]
      r1 == IF rev = 2 /\ vis # c.visible THEN RunEffect(r0) ELSE r0
  IN IF CountDepsChanged(c.start, r0.start)
       THEN CountEffect(CountCleanup(r1, c.start))
       ELSE r1

\* React renders what is pending: the root when its state changed (and with it
\* every card), otherwise the cards whose own state changed.
Commit ==
  /\ ~(~rootDirty /\ \A i \in DOMAIN cards : ~cards[i].dirty)
  /\ rootDirty' = FALSE
  /\ rendered' = IF ~rootDirty THEN rendered
                 ELSE IF loading THEN "skeleton" ELSE "cards"
  /\ cards' =
       IF ~rootDirty
         THEN [i \in DOMAIN cards |->
                 IF cards[i].dirty THEN RenderCard(cards[i], cards[i].visible)
                                   ELSE cards[i]]
       ELSE IF loading THEN cards
       ELSE IF rendered = "cards"
         THEN [i \in DOMAIN cards |-> RenderCard(cards[i], visible)]
         ELSE LET items == RenderItems(data)
              IN [i \in 1..Len(items) |-> MountCard(items[i], i - 1, visible)]
  /\ UNCHANGED <<rev, prefersReduced, mounted, data, loading, visible, fetchVars,
                 io, hookVars>>

\* One run of step(now) for a card whose frame callback is scheduled; rnd is
\* Math.random() < 0.06.
StepFrame(c, dt, rnd) ==
  IF ~c.raf THEN c
  ELSE LET e == Min(DurationMs, c.elapsed + dt)
           p == c.num
           curInt == StepInt(p, e)
       IN IF e < 0 THEN [c EXCEPT !.elapsed = e]
          ELSE [c EXCEPT !.elapsed = e,
                         !.text = StepText(p, e),
                         !.dirty = TRUE,
                         !.raf = e < DurationMs,
                         !.lastInt = IF rev = 2 /\ p.decimals = 0 THEN curInt ELSE @,
                         !.ticked = @ \/ (rev = 2 /\ IF p.decimals = 0
                                                       THEN curInt # c.lastInt
                                                       ELSE rnd)]

AnimDuration(a) ==
  IF a = "entrance" THEN EntranceMs ELSE IF a = "icon" THEN IconMs ELSE GlowMs

\* The timeline of revision 2's run for one frame: an animation whose time is
\* up resolves its promise and the next one is started; after the glow,
\* if (mounted) setReadyToCount(true).
AnimFrame(c, dt) ==
  IF c.anim \notin {"entrance", "icon", "glow"} THEN c
  ELSE LET t == c.animT + dt
       IN IF t < AnimDuration(c.anim) THEN [c EXCEPT !.animT = t]
          ELSE IF c.anim = "entrance" THEN [c EXCEPT !.anim = "icon", !.animT = 0]
          ELSE IF c.anim = "icon" THEN [c EXCEPT !.anim = "glow", !.animT = 0]
          ELSE [c EXCEPT !.anim = "done", !.animT = 0, !.readyToCount = TRUE,
                         !.dirty = @ \/ ~c.readyToCount]

\* The browser delivers an animation frame dt after the previous one: every
\* scheduled step runs, and the running animations advance.
Frame(dt, lucky) ==
  /\ ~(\A i \in DOMAIN cards :
          ~cards[i].raf /\ cards[i].anim \notin {"entrance", "icon", "glow"})
  /\ cards' = [i \in DOMAIN cards |-> AnimFrame(StepFrame(cards[i], dt, i \in lucky), dt)]
  /\ UNCHANGED <<rev, prefersReduced, rootVars, fetchVars, io, hookVars>>

\* The time since the previous frame: one frame interval, or two.
FrameDts == {FrameMs, 2 * FrameMs}

\* The cards whose step draws Math.random() in a frame: those of revision 2
\* that count a value with decimals.
RandomCards ==
  {i \in DOMAIN cards : rev = 2 /\ cards[i].raf
                          /\ cards[i].num.decimals > 0}

DeliverFrame == \E dt \in FrameDts, lucky \in SUBSET RandomCards : Frame(dt, lucky)

Next ==
  \/ Mount
  \/ FetchRejects
  \/ \E ok \in BOOLEAN : ResponseArrives(ok)
  \/ BodyInvalid
  \/ \E json \in Payloads : BodyParsed(json)
  \/ TimerFires
  \/ AbortRejects
  \/ Intersect
  \/ Commit
  \/ DeliverFrame

Spec == Init /\ [][Next]_vars

\* A set timer fires and an aborted request rejects; the server may never
\* answer.
FetchFairSpec ==
  Spec /\ WF_vars(Mount) /\ WF_vars(TimerFires) /\ WF_vars(AbortRejects)

\* The browser keeps delivering animation frames and React renders what is
\* pending; the container may never come into view.
FrameFairSpec == Spec /\ WF_vars(Commit) /\ WF_vars(DeliverFrame)

\* ------------------------------------------- the count-up hook on its own
Alphabet == {"0", "7", ".", "K", " ", "\n"}

Strings == UNION {[1..k -> Alphabet] : k \in 0..MaxLen}

\* useCountUp(targetStr, { start: true, delay: 0 }) just after its effect ran.
InitHook ==
  /\ InitComponent
  /\ pv \in Strings
  /\ ptext = pv
  /\ pe = 0

\* step(now): the text of the frame at the elapsed time reached.
HookFrame(dt) ==
  /\ pe < DurationMs
  /\ pe' = Min(DurationMs, pe + dt)
  /\ ptext' = StepText(parseNumeric(pv), pe')
  /\ UNCHANGED <<rev, prefersReduced, rootVars, cards, fetchVars, io, pv>>

NextHook == \E dt \in FrameDts : HookFrame(dt)

SpecHook == InitHook /\ [][NextHook]_vars

\* ---------------------------------------------------------------- claims
CardItems == [i \in DOMAIN cards |-> cards[i].item]

\* C1: however the request fails (fetch rejects, status not OK, body not JSON,
\* payload null or without items, abort by the timer), once fetchMetrics has
\* finished data is defaultMetrics, and the cards rendered are the four default
\* items.
C1_FallbackOnFailure ==
  (failure \in Failures /\ ~loading) =>
    /\ data = defaultMetrics
    /\ rendered = "cards" => CardItems = DefaultItems

C1_Witness ==
  failure = "http" /\ rendered = "cards" /\ Len(cards) = 4 /\ data = defaultMetrics

\* C2: after mount loading eventually becomes false when the timer is allowed to
\* fire and the aborted request to reject, even if the server never answers;
\* once false, loading is never true again, and once the cards are rendered the
\* skeleton is not rendered again.
C2_LoadingEnds ==
  /\ mounted ~> ~loading
  /\ [][~loading => ~loading']_vars
  /\ [][rendered = "cards" => rendered' = "cards"]_vars

C2_Witness == mounted /\ ~loading /\ failure = "abort" /\ rendered = "cards"

\* C3: one mounted component issues exactly one request: none before mount, one
\* from mount on, whatever failed, rendered or became visible since.
C3_OneRequest == requests = (IF mounted THEN 1 ELSE 0)

C3_Witness ==
  requests = 1 /\ failure \in Failures /\ visible /\ rendered = "cards" /\ ~rootDirty

\* C4: with reduced motion off, no card runs useCountUp with start = true while
\* visible is still false.
C4_NoCountBeforeVisible ==
  ~prefersReduced => \A i \in DOMAIN cards : cards[i].start => visible

CountStarted(i) == i \in DOMAIN cards /\ cards[i].start

CountFinished(i) ==
  /\ i \in DOMAIN cards
  /\ cards[i].elapsed = DurationMs
  /\ ~cards[i].raf
  /\ cards[i].shown = StepText(parseNumeric(cards[i].item.value), DurationMs)

\* C5: a card whose count-up has started eventually stays at t = 1, showing its
\* final text, with no animation frame scheduled.
C5_CountUpEnds == \A i \in 1..SliceLen : CountStarted(i) ~> []CountFinished(i)

\* C6: the text of the final count-up frame (t = 1) is the target string with
\* its surrounding white space removed.
C6_FinalTextIsValue == pe = DurationMs => ptext = Trim(pv)

\* C7: in revision 2 with reduced motion off, a card is ready to count, or
\* counts, only after its entrance, icon pop and glow pulse have all completed.
C7_TimelineBeforeCount ==
  (rev = 2 /\ ~prefersReduced) =>
    \A i \in DOMAIN cards :
      (cards[i].readyToCount \/ cards[i].start) => cards[i].anim = "done"

\* C8: data is assigned exactly once per mount, the server payload only when an
\* OK response with an items field was read and no abort happened, otherwise
\* defaultMetrics; loading is false only after that assignment, with the timer
\* no longer set, and data never changes once loading is false.
C8_DataAssignedOnce ==
  /\ [](/\ setDataCalls <= 1
        /\ ~loading => (setDataCalls = 1 /\ timer # "set" /\ data # JsonNull)
        /\ loading => setDataCalls = 0
        /\ data \notin {JsonNull, defaultMetrics} =>
             (failure = "none" /\ ~aborted /\ ~InvalidPayload(data)))
  /\ [][~loading => data' = data]_vars

C8_Witness ==
  ~loading /\ setDataCalls = 1 /\ data \notin {JsonNull, defaultMetrics} /\ timer = "cleared"

\* C9: the rendered cards are the first min(4, length) entries of data.items in
\* order when data.items is an array, the four default items when it is not, and
\* never more than four; cards are rendered only once loading is false.
C9_RenderedCards ==
  rendered = "cards" =>
    LET src == IF data.itemsKind = "array" THEN data.items ELSE DefaultItems
    IN /\ ~loading
       /\ Len(cards) = Min(4, Len(src))
       /\ Len(cards) <= 4
       /\ \A i \in DOMAIN cards : cards[i].item = src[i] /\ cards[i].idx = i - 1

C9_Witness ==
  rendered = "cards" /\ data.itemsKind = "array" /\ Len(data.items) > 4 /\ Len(cards) = 4

\* C10: with reduced motion preferred, mounting sets visible without creating
\* an IntersectionObserver, no card schedules a count-up frame or plays the tick
\* sound, and every card shows its item's value unchanged.
C10_ReducedMotion ==
  prefersReduced =>
    /\ mounted => (visible /\ io = "none")
    /\ \A i \in DOMAIN cards :
         /\ ~cards[i].raf
         /\ ~cards[i].ticked
         /\ cards[i].shown = cards[i].item.value
         /\ cards[i].text = cards[i].item.value

C10_Witness ==
  /\ prefersReduced /\ rev = 2 /\ rendered = "cards" /\ Len(cards) = 4
  /\ \A i \in DOMAIN cards : cards[i].readyToCount /\ cards[i].visible

====
